---- MODULE Spec2Model ----
(***************************************************************************)
(* Model of the RESP3 decoder of pkg/proto/resp3.go.                       *)
(*                                                                         *)
(* The Byte Source (a *bufio.Reader) is a sequence of bytes `input` and    *)
(* the number `pos` of bytes already consumed.  A byte is a one-character  *)
(* string.  Every decoder is an operator (in, p) -> result, where p is the *)
(* number of bytes consumed before the call and result.pos the number      *)
(* consumed after it.  A result has kind "ret" (the Go function returned)  *)
(* or kind "panic" (the Go function panicked; `why` is the message).       *)
(***************************************************************************)
EXTENDS Integers, Sequences, FiniteSets, TLC

VARIABLES input, pos, rets, status

vars == <<input, pos, rets, status>>

CR == "\r"
LF == "\n"

Digits == <<"0", "1", "2", "3", "4", "5", "6", "7", "8", "9">>

IsDigit(c) == \E d \in 1..10 : Digits[d] = c

DigitVal(c) == (CHOOSE d \in 1..10 : Digits[d] = c) - 1

Tail2(s) == SubSeq(s, 2, Len(s))

-----------------------------------------------------------------------------
(* Message model.  A Message is a record; NoMsg is the nil Message.  The   *)
(* field that a variant does not use holds its zero value.                 *)
(*   t     variant name                                                    *)
(*   c     Verbatim type code (field t of Verbatim)                        *)
(*   s     text of String, Error, Verbatim; decimal text of BigInt,        *)
(*         literal denoting the value of Float64                           *)
(*   n     value of Int64                                                  *)
(*   b     value of Bool                                                   *)
(*   k, v  keys and values of Map, Attributes; v elements of Array, Set,   *)
(*         Push                                                            *)
(*   attrs <<>> when no attributes are attached, <<a>> after               *)
(*         SetAttributes(a)                                                *)

Mk(t, c, s, n, b, k, v) ==
    [t |-> t, c |-> c, s |-> s, n |-> n, b |-> b, k |-> k, v |-> v, attrs |-> <<>>]

NoMsg == Mk("nil", <<>>, <<>>, 0, FALSE, <<>>, <<>>)

String(v) == Mk("String", <<>>, v, 0, FALSE, <<>>, <<>>)

Error(v) == Mk("Error", <<>>, v, 0, FALSE, <<>>, <<>>)

Int64(v) == Mk("Int64", <<>>, <<>>, v, FALSE, <<>>, <<>>)

BigInt(v) == Mk("BigInt", <<>>, v, 0, FALSE, <<>>, <<>>)

Float64(v) == Mk("Float64", <<>>, v, 0, FALSE, <<>>, <<>>)

Bool(v) == Mk("Bool", <<>>, <<>>, 0, v, <<>>, <<>>)

Nil == Mk("Nil", <<>>, <<>>, 0, FALSE, <<>>, <<>>)

Verbatim(t, v) == Mk("Verbatim", t, v, 0, FALSE, <<>>, <<>>)

Array(v) == Mk("Array", <<>>, <<>>, 0, FALSE, <<>>, v)

Set(v) == Mk("Set", <<>>, <<>>, 0, FALSE, <<>>, v)

Push(v) == Mk("Push", <<>>, <<>>, 0, FALSE, <<>>, v)

Map(k, v) == Mk("Map", <<>>, <<>>, 0, FALSE, k, v)

Attributes(k, v) == Mk("Attributes", <<>>, <<>>, 0, FALSE, k, v)

SetAttributes(msg, a) == [msg EXCEPT !.attrs = <<a>>]

-----------------------------------------------------------------------------
(* Results.                                                                *)

\* a panic with the message why followed by the text arg
Panic(why, arg, p) == [kind |-> "panic", why |-> why, arg |-> arg, pos |-> p]

\* (Message, error) of a ReadFunc
Ret(msg, err, p) == [kind |-> "ret", msg |-> msg, err |-> err, pos |-> p]

\* (string, error) of simpleString and blobString
RetStr(str, err, p) == [kind |-> "ret", str |-> str, err |-> err, pos |-> p]

\* (int64, error) of number and chunkString
RetNum(v, err, p) == [kind |-> "ret", v |-> v, err |-> err, pos |-> p]

\* ([]Message, []Message, error) of readArray (k unused) and readMap
RetSeq(k, v, err, p) == [kind |-> "ret", k |-> k, v |-> v, err |-> err, pos |-> p]

-----------------------------------------------------------------------------
(* bufio.Reader operations on (in, p).                                     *)

\* index of the first LF after the p consumed bytes, 0 when there is none
FindLF(in, p) ==
    LET S == {q \in (p + 1)..Len(in) : in[q] = LF}
    IN  IF S = {} THEN 0 ELSE CHOOSE q \in S : \A r \in S : q <= r

\* i.Discard(n): skips n bytes; with fewer than n left it skips them all
\* and fails with io.EOF
Discard(in, p, n) ==
    IF p + n <= Len(in) THEN [err |-> "nil", pos |-> p + n]
    ELSE [err |-> "EOF", pos |-> Len(in)]

\* io.ReadFull(i, bs) with len(bs) = n >= 0: io.EOF when no byte was read,
\* io.ErrUnexpectedEOF after a short read
ReadFull(in, p, n) ==
    IF n = 0 THEN [bs |-> <<>>, err |-> "nil", pos |-> p]
    ELSE IF p + n <= Len(in)
         THEN [bs |-> SubSeq(in, p + 1, p + n), err |-> "nil", pos |-> p + n]
    ELSE IF p >= Len(in) THEN [bs |-> <<>>, err |-> "EOF", pos |-> Len(in)]
    ELSE [bs |-> SubSeq(in, p + 1, Len(in)), err |-> "ErrUnexpectedEOF",
          pos |-> Len(in)]

-----------------------------------------------------------------------------
(* strconv and math/big, as the decoder uses them.                         *)

AllDigits(s) == \A j \in 1..Len(s) : IsDigit(s[j])

RECURSIVE StripZeros(_)
StripZeros(s) ==
    IF Len(s) > 1 /\ s[1] = "0" THEN StripZeros(Tail2(s)) ELSE s

\* a > b for digit strings of the same length
RECURSIVE DigitsGreater(_, _)
DigitsGreater(a, b) ==
    IF Len(a) = 0 THEN FALSE
    ELSE IF DigitVal(a[1]) # DigitVal(b[1]) THEN DigitVal(a[1]) > DigitVal(b[1])
    ELSE DigitsGreater(Tail2(a), Tail2(b))

MaxInt64Digits ==
    <<"9", "2", "2", "3", "3", "7", "2", "0", "3", "6", "8", "5", "4", "7", "7", "5",
      "8", "0", "7">>

MinInt64Digits ==
    <<"9", "2", "2", "3", "3", "7", "2", "0", "3", "6", "8", "5", "4", "7", "7", "5",
      "8", "0", "8">>

RECURSIVE DigitsValue(_, _)
DigitsValue(s, acc) ==
    IF Len(s) = 0 THEN acc ELSE DigitsValue(Tail2(s), acc * 10 + DigitVal(s[1]))

\* strconv.ParseInt(str, 10, 64): an optional sign, then one or more decimal
\* digits.  A syntax error returns 0; a range error returns the nearest
\* bound, which every caller of number discards (v |-> 0 stands for it).
ParseInt(str) ==
    LET neg  == Len(str) > 0 /\ str[1] = "-"
        sgn  == Len(str) > 0 /\ str[1] \in {"+", "-"}
        body == IF sgn THEN Tail2(str) ELSE str
        mag  == StripZeros(body)
        lim  == IF neg THEN MinInt64Digits ELSE MaxInt64Digits
    IN  IF Len(body) = 0 \/ ~AllDigits(body) THEN [v |-> 0, err |-> "ErrSyntax"]
        ELSE IF Len(mag) > Len(lim) \/ (Len(mag) = Len(lim) /\ DigitsGreater(mag, lim))
             THEN [v |-> 0, err |-> "ErrRange"]
        ELSE [v |-> IF neg THEN 0 - DigitsValue(mag, 0) ELSE DigitsValue(mag, 0),
              err |-> "nil"]

\* strconv.ParseFloat(str, 64) on the texts of the model's alphabet: the
\* special values, or decimal digits with at most one point and an optional
\* sign.  The value is the number the text denotes, kept as that text; a
\* syntax error returns 0.
ParseFloat(str) ==
    LET sgn  == Len(str) > 0 /\ str[1] \in {"+", "-"}
        body == IF sgn THEN Tail2(str) ELSE str
        dots == {j \in 1..Len(body) : body[j] = "."}
        digs == {j \in 1..Len(body) : IsDigit(body[j])}
        ok   == \/ body \in {<<"i", "n", "f">>, <<"i", "n", "f", "i", "n", "i", "t", "y">>}
                \/ (~sgn /\ body = <<"n", "a", "n">>)
                \/ /\ digs # {}
                   /\ Cardinality(dots) <= 1
                   /\ dots \cup digs = 1..Len(body)
    IN  IF ok THEN [v |-> str, err |-> "nil"] ELSE [v |-> <<"0">>, err |-> "ErrSyntax"]

\* strconv.ParseBool(str)
ParseBool(str) ==
    IF str \in {<<"1">>, <<"t">>, <<"T">>, <<"T", "R", "U", "E">>,
                <<"t", "r", "u", "e">>, <<"T", "r", "u", "e">>}
    THEN [v |-> TRUE, err |-> "nil"]
    ELSE IF str \in {<<"0">>, <<"f">>, <<"F">>, <<"F", "A", "L", "S", "E">>,
                     <<"f", "a", "l", "s", "e">>, <<"F", "a", "l", "s", "e">>}
    THEN [v |-> FALSE, err |-> "nil"]
    ELSE [v |-> FALSE, err |-> "ErrSyntax"]

\* (*big.Int).SetString(str, 10): an optional sign, then one or more decimal
\* digits; the value is kept as its canonical decimal text
BigSetString(str) ==
    LET neg  == Len(str) > 0 /\ str[1] = "-"
        sgn  == Len(str) > 0 /\ str[1] \in {"+", "-"}
        body == IF sgn THEN Tail2(str) ELSE str
        mag  == StripZeros(body)
    IN  IF Len(body) = 0 \/ ~AllDigits(body) THEN [v |-> <<>>, ok |-> FALSE]
        ELSE [v |-> IF neg /\ mag # <<"0">> THEN <<"-">> \o mag ELSE mag, ok |-> TRUE]

-----------------------------------------------------------------------------
(* Scalar decoders.                                                        *)

chunked == "chunked"

\* v := e; F(v): the value of e bound once, as a Go short declaration does
Then(v, F(_)) == F(v)

simpleString(in, p) ==
    Then(FindLF(in, p), LAMBDA q :
        IF q = 0 THEN RetStr(<<>>, "EOF", Len(in))
        ELSE IF (q - p) - 2 < 0
             THEN Panic("received unexpected simple string message ending without CRLF", <<>>, q)
        ELSE RetStr(SubSeq(in, p + 1, q - 2), "nil", q))

SimpleString(in, p) ==
    Then(simpleString(in, p), LAMBDA r :
        IF r.kind = "panic" THEN r
        ELSE IF r.err # "nil" THEN Ret(NoMsg, r.err, r.pos)
        ELSE Ret(String(r.str), "nil", r.pos))

\* the end of number, with the result pr of strconv.ParseInt
numberParsed(pr, p) ==
    IF pr.err = "nil" THEN RetNum(0, pr.err, p) ELSE RetNum(pr.v, pr.err, p)

number(in, p) ==
    Then(simpleString(in, p), LAMBDA r :
        IF r.kind = "panic" THEN r
        ELSE IF r.err # "nil" THEN RetNum(0, r.err, r.pos)
        ELSE IF r.str = <<"?">> THEN RetNum(0, chunked, r.pos)
        ELSE numberParsed(ParseInt(r.str), r.pos))

blobString(in, p) ==
    Then(number(in, p), LAMBDA r :
        IF r.kind = "panic" THEN r
        ELSE IF r.err # "nil" THEN RetStr(<<>>, r.err, r.pos)
        ELSE IF r.v < 0 THEN Panic("makeslice: len out of range", <<>>, r.pos)
        ELSE Then(ReadFull(in, r.pos, r.v), LAMBDA f :
                IF f.err # "nil" THEN RetStr(<<>>, f.err, f.pos)
                ELSE Then(Discard(in, f.pos, 2), LAMBDA d :
                        IF d.err # "nil" THEN RetStr(<<>>, d.err, d.pos)
                        ELSE RetStr(f.bs, "nil", d.pos))))

\* the result also carries the strings.Builder sb as the call leaves it
chunkString(in, p, sb) ==
    Then(Discard(in, p, 1), LAMBDA d1 :
        IF d1.err # "nil" THEN RetNum(0, d1.err, d1.pos) @@ [sb |-> sb]
        ELSE Then(number(in, d1.pos), LAMBDA r :
                IF r.kind = "panic" THEN r
                ELSE IF r.err # "nil" \/ r.v = 0 THEN RetNum(0, r.err, r.pos) @@ [sb |-> sb]
                ELSE IF r.v < 0 THEN Panic("strings.Builder.Grow: negative count", <<>>, r.pos)
                ELSE IF r.pos + r.v > Len(in)
                     THEN RetNum(0, "EOF", Len(in))
                          @@ [sb |-> sb \o SubSeq(in, r.pos + 1, Len(in))]
                ELSE Then(Discard(in, r.pos + r.v, 2), LAMBDA d2 :
                        IF d2.err # "nil"
                        THEN RetNum(0, d2.err, d2.pos)
                             @@ [sb |-> sb \o SubSeq(in, r.pos + 1, r.pos + r.v)]
                        ELSE RetNum(r.v, "nil", d2.pos)
                             @@ [sb |-> sb \o SubSeq(in, r.pos + 1, r.pos + r.v)])))

\* the loop of BlobString over the chunks
RECURSIVE BlobStringChunks(_, _, _)
BlobStringChunks(in, p, sb) ==
    Then(chunkString(in, p, sb), LAMBDA c :
        IF c.kind = "panic" THEN c
        ELSE IF c.err # "nil" THEN Ret(NoMsg, c.err, c.pos)
        ELSE IF c.v = 0 THEN Ret(String(c.sb), "nil", c.pos)
        ELSE BlobStringChunks(in, c.pos, c.sb))

BlobString(in, p) ==
    Then(blobString(in, p), LAMBDA r :
        IF r.kind = "panic" THEN r
        ELSE IF r.err = chunked THEN BlobStringChunks(in, r.pos, <<>>)
        ELSE IF r.err # "nil" THEN Ret(NoMsg, r.err, r.pos)
        ELSE Ret(String(r.str), "nil", r.pos))

VerbatimString(in, p) ==
    Then(blobString(in, p), LAMBDA r :
        IF r.kind = "panic" THEN r
        ELSE IF r.err # "nil" \/ Len(r.str) <= 4 THEN Ret(NoMsg, r.err, r.pos)
        ELSE Ret(Verbatim(SubSeq(r.str, 1, 3), SubSeq(r.str, 5, Len(r.str))), r.err, r.pos))

SimpleError(in, p) ==
    Then(simpleString(in, p), LAMBDA r :
        IF r.kind = "panic" THEN r
        ELSE IF r.err # "nil" THEN Ret(NoMsg, r.err, r.pos)
        ELSE Ret(Error(r.str), "nil", r.pos))

BlobError(in, p) ==
    Then(blobString(in, p), LAMBDA r :
        IF r.kind = "panic" THEN r
        ELSE IF r.err # "nil" THEN Ret(NoMsg, r.err, r.pos)
        ELSE Ret(Error(r.str), "nil", r.pos))

Number(in, p) ==
    Then(number(in, p), LAMBDA r :
        IF r.kind = "panic" THEN r
        ELSE IF r.err # "nil" THEN Ret(NoMsg, r.err, r.pos)
        ELSE Ret(Int64(r.v), "nil", r.pos))

BigNumber(in, p) ==
    Then(simpleString(in, p), LAMBDA r :
        IF r.kind = "panic" THEN r
        ELSE IF r.err # "nil" THEN Ret(NoMsg, r.err, r.pos)
        ELSE Then(BigSetString(r.str), LAMBDA b :
                IF ~b.ok THEN Panic("fail to decode the big number: ", r.str, r.pos)
                ELSE Ret(BigInt(b.v), "nil", r.pos)))

Double(in, p) ==
    Then(simpleString(in, p), LAMBDA r :
        IF r.kind = "panic" THEN r
        ELSE IF r.err # "nil" THEN Ret(NoMsg, r.err, r.pos)
        ELSE Then(ParseFloat(r.str), LAMBDA pr :
                IF pr.err = "nil" THEN Ret(NoMsg, pr.err, r.pos)
                ELSE Ret(Float64(pr.v), pr.err, r.pos)))

Boolean(in, p) ==
    Then(simpleString(in, p), LAMBDA r :
        IF r.kind = "panic" THEN r
        ELSE IF r.err # "nil" THEN Ret(NoMsg, r.err, r.pos)
        ELSE Then(ParseBool(r.str), LAMBDA pr :
                IF pr.err = "nil" THEN Ret(NoMsg, pr.err, r.pos)
                ELSE Ret(Bool(pr.v), pr.err, r.pos)))

Null(in, p) == Then(Discard(in, p, 2), LAMBDA d : Ret(Nil, d.err, d.pos))

ReadEnd(in, p) == Then(Discard(in, p, 2), LAMBDA d : Ret(NoMsg, d.err, d.pos))

-----------------------------------------------------------------------------
(* Dispatch table, aggregate decoders and the top-level reader.            *)

readFns ==
    [t \in {"$", "+", "-", ":", "_", ",", "#", "!", "=", "(", "*", "%", "~", "|", ">", "."} |->
        CASE t = "$" -> "BlobString"
          [] t = "+" -> "SimpleString"
          [] t = "-" -> "SimpleError"
          [] t = ":" -> "Number"
          [] t = "_" -> "Null"
          [] t = "," -> "Double"
          [] t = "#" -> "Boolean"
          [] t = "!" -> "BlobError"
          [] t = "=" -> "VerbatimString"
          [] t = "(" -> "BigNumber"
          [] t = "*" -> "ReadArray"
          [] t = "%" -> "ReadMap"
          [] t = "~" -> "ReadSet"
          [] t = "|" -> "ReadAttributes"
          [] t = ">" -> "ReadPush"
          [] t = "." -> "ReadEnd"]

\* the unknown tag reported as an ordinary error
unknownTypeAsError(t, p) == Ret(NoMsg, "unknown message type", p)

\* ReadNext on a tag t that readFns does not hold; p counts the tag
unknownType(t, p) == Panic("received unknown message type: ", <<t>>, p)

\* msg.SetAttributes(*attrs) on the Message interface value msg
callSetAttributes(msg, attrs, p) ==
    IF msg = NoMsg THEN Panic("invalid memory address or nil pointer dereference", <<>>, p)
    ELSE Ret(SetAttributes(msg, attrs), "nil", p)

RECURSIVE ReadNext(_, _), ReadNextLoop(_, _, _), readArray(_, _), readMap(_, _)
RECURSIVE readArrayChunked(_, _, _), readArrayFixed(_, _, _, _, _)
RECURSIVE readMapChunked(_, _, _, _), readMapFixed(_, _, _, _, _, _)
RECURSIVE ReadArray(_, _), ReadSet(_, _), ReadPush(_, _), ReadMap(_, _)
RECURSIVE ReadAttributes(_, _), callReadFn(_, _, _)

\* the streamed loop of readArray
readArrayChunked(in, p, v) ==
    Then(ReadNext(in, p), LAMBDA r :
        IF r.kind = "panic" THEN r
        ELSE IF r.err # "nil" THEN RetSeq(<<>>, <<>>, r.err, r.pos)
        ELSE IF r.msg = NoMsg THEN RetSeq(<<>>, v, "nil", r.pos)
        ELSE readArrayChunked(in, r.pos, Append(v, r.msg)))

\* the counted loop of readArray: v holds the n elements read so far
readArrayFixed(in, p, n, length, v) ==
    IF ~(n < length) THEN RetSeq(<<>>, v, "nil", p)
    ELSE Then(ReadNext(in, p), LAMBDA r :
            IF r.kind = "panic" THEN r
            ELSE IF r.err # "nil" THEN RetSeq(<<>>, <<>>, r.err, r.pos)
            ELSE readArrayFixed(in, r.pos, n + 1, length, Append(v, r.msg)))

readArray(in, p) ==
    Then(number(in, p), LAMBDA r :
        IF r.kind = "panic" THEN r
        ELSE IF r.err = chunked THEN readArrayChunked(in, r.pos, <<>>)
        ELSE IF r.err # "nil" THEN RetSeq(<<>>, <<>>, r.err, r.pos)
        ELSE IF r.v < 0 THEN Panic("makeslice: len out of range", <<>>, r.pos)
        ELSE readArrayFixed(in, r.pos, 0, r.v, <<>>))

\* the streamed loop of readMap
readMapChunked(in, p, k, v) ==
    Then(ReadNext(in, p), LAMBDA l :
        IF l.kind = "panic" THEN l
        ELSE IF l.err # "nil" THEN RetSeq(<<>>, <<>>, l.err, l.pos)
        ELSE IF l.msg = NoMsg THEN RetSeq(k, v, "nil", l.pos)
        ELSE Then(ReadNext(in, l.pos), LAMBDA n :
                IF n.kind = "panic" THEN n
                ELSE IF n.err # "nil" THEN RetSeq(<<>>, <<>>, n.err, n.pos)
                ELSE readMapChunked(in, n.pos, Append(k, l.msg), Append(v, n.msg))))

\* the counted loop of readMap: k and v hold the n pairs read so far
readMapFixed(in, p, n, length, k, v) ==
    IF ~(n < length) THEN RetSeq(k, v, "nil", p)
    ELSE Then(ReadNext(in, p), LAMBDA rk :
            IF rk.kind = "panic" THEN rk
            ELSE IF rk.err # "nil" THEN RetSeq(<<>>, <<>>, rk.err, rk.pos)
            ELSE Then(ReadNext(in, rk.pos), LAMBDA rv :
                    IF rv.kind = "panic" THEN rv
                    ELSE IF rv.err # "nil" THEN RetSeq(<<>>, <<>>, rv.err, rv.pos)
                    ELSE readMapFixed(in, rv.pos, n + 1, length,
                                      Append(k, rk.msg), Append(v, rv.msg))))

readMap(in, p) ==
    Then(number(in, p), LAMBDA r :
        IF r.kind = "panic" THEN r
        ELSE IF r.err = chunked THEN readMapChunked(in, r.pos, <<>>, <<>>)
        ELSE IF r.err # "nil" THEN RetSeq(<<>>, <<>>, r.err, r.pos)
        ELSE IF r.v < 0 THEN Panic("makeslice: len out of range", <<>>, r.pos)
        ELSE readMapFixed(in, r.pos, 0, r.v, <<>>, <<>>))

ReadArray(in, p) ==
    Then(readArray(in, p), LAMBDA r :
        IF r.kind = "panic" THEN r
        ELSE IF r.err # "nil" THEN Ret(NoMsg, r.err, r.pos)
        ELSE Ret(Array(r.v), "nil", r.pos))

ReadSet(in, p) ==
    Then(readArray(in, p), LAMBDA r :
        IF r.kind = "panic" THEN r
        ELSE IF r.err # "nil" THEN Ret(NoMsg, r.err, r.pos)
        ELSE Ret(Set(r.v), "nil", r.pos))

ReadPush(in, p) ==
    Then(readArray(in, p), LAMBDA r :
        IF r.kind = "panic" THEN r
        ELSE IF r.err # "nil" THEN Ret(NoMsg, r.err, r.pos)
        ELSE Ret(Push(r.v), "nil", r.pos))

ReadMap(in, p) ==
    Then(readMap(in, p), LAMBDA r :
        IF r.kind = "panic" THEN r
        ELSE IF r.err # "nil" THEN Ret(NoMsg, r.err, r.pos)
        ELSE Ret(Map(r.k, r.v), r.err, r.pos))

ReadAttributes(in, p) ==
    Then(readMap(in, p), LAMBDA r :
        IF r.kind = "panic" THEN r
        ELSE IF r.err # "nil" THEN Ret(NoMsg, r.err, r.pos)
        ELSE Ret(Attributes(r.k, r.v), r.err, r.pos))

\* fn(i) for fn the ReadFunc named fn
callReadFn(fn, in, p) ==
    CASE fn = "BlobString" -> BlobString(in, p)
      [] fn = "SimpleString" -> SimpleString(in, p)
      [] fn = "SimpleError" -> SimpleError(in, p)
      [] fn = "Number" -> Number(in, p)
      [] fn = "Null" -> Null(in, p)
      [] fn = "Double" -> Double(in, p)
      [] fn = "Boolean" -> Boolean(in, p)
      [] fn = "BlobError" -> BlobError(in, p)
      [] fn = "VerbatimString" -> VerbatimString(in, p)
      [] fn = "BigNumber" -> BigNumber(in, p)
      [] fn = "ReadArray" -> ReadArray(in, p)
      [] fn = "ReadMap" -> ReadMap(in, p)
      [] fn = "ReadSet" -> ReadSet(in, p)
      [] fn = "ReadAttributes" -> ReadAttributes(in, p)
      [] fn = "ReadPush" -> ReadPush(in, p)
      [] fn = "ReadEnd" -> ReadEnd(in, p)

\* the for loop of ReadNext; attrs is NoMsg while the pointer attrs is nil
ReadNextLoop(in, p, attrs) ==
    IF p >= Len(in) THEN Ret(NoMsg, "EOF", p)
    ELSE IF in[p + 1] \notin DOMAIN readFns THEN unknownType(in[p + 1], p + 1)
    ELSE Then(callReadFn(readFns[in[p + 1]], in, p + 1), LAMBDA r :
            IF r.kind = "panic" THEN r
            ELSE IF r.err # "nil" THEN Ret(NoMsg, r.err, r.pos)
            ELSE IF in[p + 1] = "|" THEN ReadNextLoop(in, r.pos, r.msg)
            ELSE IF attrs # NoMsg THEN callSetAttributes(r.msg, attrs, r.pos)
            ELSE Ret(r.msg, "nil", r.pos))

ReadNext(in, p) == ReadNextLoop(in, p, NoMsg)

-----------------------------------------------------------------------------
(* The wire format: the encoding of a Message, used to build the input     *)
(* streams and to state what a stream is expected to decode to.            *)

MaxText == 2
MaxInt == 2
MaxElems == 2
MaxChunks == 2
MaxRaw == 3

CRLF == <<CR, LF>>

RECURSIVE DecNat(_)
DecNat(n) == IF n < 10 THEN <<Digits[n + 1]>> ELSE DecNat(n \div 10) \o <<Digits[(n % 10) + 1]>>

Dec(n) == IF n < 0 THEN <<"-">> \o DecNat(0 - n) ELSE DecNat(n)

Line(tag, text) == <<tag>> \o text \o CRLF

Blob(tag, text) == <<tag>> \o Dec(Len(text)) \o CRLF \o text \o CRLF

Chunk(text) == <<";">> \o Dec(Len(text)) \o CRLF \o text \o CRLF

EndChunk == <<";", "0">> \o CRLF

RECURSIVE Chunks(_)
Chunks(cs) == IF Len(cs) = 0 THEN <<>> ELSE Chunk(cs[1]) \o Chunks(Tail2(cs))

RECURSIVE Concat(_)
Concat(cs) == IF Len(cs) = 0 THEN <<>> ELSE cs[1] \o Concat(Tail2(cs))

ChunkedBlob(cs) == <<"$", "?">> \o CRLF \o Chunks(cs) \o EndChunk

AggregateTag(t) ==
    CASE t = "Array" -> "*" [] t = "Set" -> "~" [] t = "Push" -> ">"
      [] t = "Map" -> "%" [] t = "Attributes" -> "|"

\* Enc(m, st): the bytes of message m, its attribute block first.  The
\* style st is "line" (simple strings, counted aggregates), "fixed" (blob
\* strings, counted aggregates) or "streamed" (chunked blob strings,
\* streamed aggregates).
RECURSIVE Enc(_, _), EncAll(_, _), EncPairs(_, _, _)
EncAll(ms, st) == IF Len(ms) = 0 THEN <<>> ELSE Enc(ms[1], st) \o EncAll(Tail2(ms), st)

EncPairs(k, v, st) ==
    IF Len(k) = 0 THEN <<>>
    ELSE Enc(k[1], st) \o Enc(v[1], st) \o EncPairs(Tail2(k), Tail2(v), st)

Enc(m, st) ==
    LET head == IF m.attrs = <<>> THEN <<>> ELSE Enc(m.attrs[1], st)
        body ==
          CASE m.t = "String" ->
                 IF st = "line" THEN Line("+", m.s)
                 ELSE IF st = "fixed" THEN Blob("$", m.s)
                 ELSE ChunkedBlob(IF m.s = <<>> THEN <<>> ELSE <<m.s>>)
            [] m.t = "Error" -> IF st = "line" THEN Line("-", m.s) ELSE Blob("!", m.s)
            [] m.t = "Int64" -> Line(":", Dec(m.n))
            [] m.t = "BigInt" -> Line("(", m.s)
            [] m.t = "Float64" -> Line(",", m.s)
            [] m.t = "Bool" -> Line("#", IF m.b THEN <<"t">> ELSE <<"f">>)
            [] m.t = "Nil" -> Line("_", <<>>)
            [] m.t = "Verbatim" -> Blob("=", m.c \o <<":">> \o m.s)
            [] m.t \in {"Array", "Set", "Push"} ->
                 IF st = "streamed"
                 THEN Line(AggregateTag(m.t), <<"?">>) \o EncAll(m.v, st) \o Line(".", <<>>)
                 ELSE Line(AggregateTag(m.t), Dec(Len(m.v))) \o EncAll(m.v, st)
            [] m.t \in {"Map", "Attributes"} ->
                 IF st = "streamed"
                 THEN Line(AggregateTag(m.t), <<"?">>) \o EncPairs(m.k, m.v, st)
                      \o Line(".", <<>>)
                 ELSE Line(AggregateTag(m.t), Dec(Len(m.k))) \o EncPairs(m.k, m.v, st)
    IN  head \o body

Styles == {"line", "fixed", "streamed"}

SeqsUpTo(S, n) == UNION {[1..j -> S] : j \in 0..n}

Texts == SeqsUpTo({"a", "b"}, MaxText)

Ints == (0 - MaxInt)..MaxInt

Scalars ==
    {String(s) : s \in Texts} \cup {Error(s) : s \in Texts} \cup {Int64(n) : n \in Ints}
    \cup {Nil, Bool(TRUE), Bool(FALSE), Float64(<<"1", ".", "5">>), Float64(<<"-", "i", "n", "f">>),
          BigInt(<<"1", "2">>), BigInt(<<"-", "1">>),
          Verbatim(<<"t", "x", "t">>, <<"a">>), Verbatim(<<"t", "x", "t">>, <<"a", "b">>)}

Elems == {Int64(1), Int64(2), String(<<"a">>), Nil}

ElemSeqs == SeqsUpTo(Elems, MaxElems)

Lists == {Array(v) : v \in ElemSeqs} \cup {Set(v) : v \in ElemSeqs} \cup {Push(v) : v \in ElemSeqs}

Keys == {String(<<"a">>), String(<<"b">>)}

PairSeqs == UNION {{[k |-> k, v |-> v] : k \in [1..j -> Keys], v \in [1..j -> Elems]} : j \in 0..MaxElems}

Maps == {Map(kv.k, kv.v) : kv \in PairSeqs}

AttrBlocks ==
    {Attributes(<<>>, <<>>),
     Attributes(<<String(<<"a">>)>>, <<Int64(1)>>),
     Attributes(<<String(<<"b">>)>>, <<Int64(2)>>)}

Nested ==
    {Array(<<Array(<<Int64(1)>>), Int64(2)>>),
     Array(<<Map(<<String(<<"a">>)>>, <<Set(<<Int64(1), Int64(2)>>)>>)>>),
     Map(<<String(<<"a">>)>>, <<Array(<<String(<<"b">>), Nil>>)>>)}

\* the messages attribute blocks are put in front of
Plain == {String(<<"a">>), Int64(1), Nil, Array(<<Int64(1), Int64(2)>>), Array(<<>>)}

Attributed ==
    {SetAttributes(m, a) : m \in Plain, a \in AttrBlocks}
    \cup {Array(<<SetAttributes(m, a), Int64(2)>>) : m \in {String(<<"a">>), Int64(1)}, a \in AttrBlocks}

Messages == Scalars \cup Lists \cup Maps \cup Nested \cup Attributed

WellFormed == {Enc(m, st) : m \in Messages, st \in Styles}

ChunkLists == SeqsUpTo(Texts \ {<<>>}, MaxChunks)

ChunkedInputs == {ChunkedBlob(cs) : cs \in ChunkLists}

\* a block that is overwritten by the block next to it, then the message
OverwrittenInputs ==
    {Enc(a, st) \o Enc(SetAttributes(m, b), st) : a \in AttrBlocks, b \in AttrBlocks,
                                                  m \in {String(<<"a">>), Int64(1)},
                                                  st \in {"line", "streamed"}}

\* an attribute block followed by the stream-end tag, inside a streamed array
PendingEndInputs ==
    {Line("*", <<"?">>) \o Enc(a, st) \o Line(".", <<>>) : a \in AttrBlocks, st \in Styles}
    \cup {Enc(a, st) \o Line(".", <<>>) : a \in AttrBlocks, st \in Styles}

\* the scenarios of the specification
Scenarios ==
    {Line("+", <<"O", "K">>),
     Blob("$", <<"h", "e", "l", "l", "o">>),
     ChunkedBlob(<<(<<"H", "e", "l", "l", "o">>), (<<"W", "o", "r", "l", "d">>)>>),
     Line("*", <<"2">>) \o Line(":", <<"1">>) \o Line(":", <<"2">>),
     Line("*", <<"?">>) \o Line(":", <<"1">>) \o Line(":", <<"2">>) \o Line(".", <<>>),
     Line("|", <<"1">>) \o Line("+", <<"t", "t", "l">>) \o Line(":", <<"1", "0", "0">>)
        \o Line("+", <<"P", "O", "N", "G">>)}

\* integer lines that do not parse, or not within 64 bits
BadNumbers ==
    {Line(":", <<"a">>), Line(":", <<>>), Line(":", <<"1", "a">>), Line(":", <<"-">>),
     Line(":", <<"9", "2", "2", "3", "3", "7", "2", "0", "3", "6", "8", "5", "4", "7", "7",
                 "5", "8", "0", "8">>),
     Line(":", <<"-", "9", "2", "2", "3", "3", "7", "2", "0", "3", "6", "8", "5", "4", "7",
                 "7", "5", "8", "0", "9">>)}

Streamable == Scalars \cup {Array(<<Int64(1), Int64(2)>>), Map(<<String(<<"a">>)>>, <<Nil>>)}

\* two and three messages one after the other
Pipelines ==
    {Enc(m1, st) \o Enc(m2, st) : m1 \in Streamable, m2 \in Elems, st \in Styles}
    \cup {Enc(m1, "line") \o Enc(m2, "line") \o Enc(m3, "line") : m1 \in Elems, m2 \in Elems, m3 \in Elems}

Truncatable == Scenarios \cup ChunkedInputs \cup {Enc(m, st) : m \in Scalars \cup Nested \cup Attributed, st \in Styles}
    \cup {Enc(m, st) : m \in {Array(<<Int64(1), String(<<"a">>)>>), Push(<<Nil>>),
                              Map(<<String(<<"a">>)>>, <<Int64(2)>>)}, st \in Styles}

Truncated == UNION {{SubSeq(e, 1, n) : n \in 0..Len(e)} : e \in Truncatable}

\* a byte that is no tag of the dispatch table, in the place of a tag
AtElement ==
    {Line(t, <<"?">>) \o EncAll(v, "line") \o <<x>> \o rest :
        t \in {"*", "~", ">", "%"}, v \in {<<>>, <<String(<<"a">>), Int64(1)>>},
        x \in {"@", ";", "a", "0", "?", CR, LF}, rest \in {<<>>, Line(":", <<"1">>)}}

Corrupted == UNION {{[e EXCEPT ![n] = "@"] : n \in 1..Len(e)} : e \in Truncatable}

RawBytes == {"+", ":", "*", "|", ".", "?", "1", "@", CR, LF}

Raw == SeqsUpTo(RawBytes, MaxRaw)

\* an aggregate in its streamed form, its elements in the line style
Streamed1(m) ==
    Line(AggregateTag(m.t), <<"?">>)
    \o (IF m.t \in {"Map", "Attributes"} THEN EncPairs(m.k, m.v, "line") ELSE EncAll(m.v, "line"))
    \o Line(".", <<>>)

\* the two framings of one aggregate; an attribute block is followed by a
\* message to carry it
Framings ==
    {[fixed |-> Enc(m, "line"), streamed |-> Streamed1(m)] : m \in Lists \cup Maps}
    \cup {[fixed |-> Enc(a, "line") \o Enc(Int64(1), "line"),
           streamed |-> Streamed1(a) \o Enc(Int64(1), "line")] : a \in AttrBlocks}

\* a streamed array of two elements, the first of each scalar kind
TwoElements ==
    {[in |-> Line("*", <<"?">>) \o Enc(x, "line") \o Enc(Int64(1), "line") \o Line(".", <<>>),
      want |-> Array(<<x, Int64(1)>>)] : x \in Scalars}

Inputs ==
    WellFormed \cup ChunkedInputs \cup OverwrittenInputs \cup PendingEndInputs \cup Scenarios
    \cup BadNumbers \cup Pipelines \cup Truncated \cup AtElement \cup Corrupted \cup Raw
    \cup {c.streamed : c \in Framings} \cup {c.in : c \in TwoElements}

-----------------------------------------------------------------------------
(* The reader's client: it calls ReadNext on the Byte Source until a call  *)
(* fails or panics.  rets holds what each call returned and where it       *)
(* started.                                                                *)

Init ==
    /\ input \in Inputs
    /\ pos = 0
    /\ rets = <<>>
    /\ status = "open"

CallReadNext ==
    /\ status = "open"
    /\ LET r == ReadNext(input, pos)
       IN  /\ pos' = r.pos
           /\ rets' = Append(rets, r @@ [start |-> pos])
           /\ status' = IF r.kind = "panic" THEN "panicked"
                        ELSE IF r.err # "nil" THEN "failed"
                        ELSE "open"
    /\ UNCHANGED input

Next == CallReadNext

Spec == Init /\ [][Next]_vars

-----------------------------------------------------------------------------
(* Properties.                                                             *)

Called == Len(rets) >= 1

\* the call returned the Message m and no error
Returned(r, m) == r.kind = "ret" /\ r.err = "nil" /\ r.msg = m

\* the call returned an error and no Message
Failed(r) == r.kind = "ret" /\ r.err # "nil" /\ r.msg = NoMsg

\* the 16 tags of the dispatch table
DispatchTags == {"$", "+", "-", ":", "_", ",", "#", "!", "=", "(", "*", "%", "~", "|", ">", "."}

UnknownTypePanic(r, p) ==
    /\ r.kind = "panic"
    /\ r.why = "received unknown message type: "
    /\ r.pos = p
    /\ DOMAIN r \cap {"msg", "err"} = {}

\* C1: a message preceded by no attribute block is returned without
\* attributes, one preceded by one block carries that block, one preceded by
\* two blocks carries the second block only, at the top level and as an
\* element of an array; an attribute block is never the returned value.
AttachmentCases ==
    {[in |-> Enc(m, st), want |-> m] : m \in Plain \cup Attributed, st \in Styles}
    \cup {[in |-> Enc(a, st) \o Enc(SetAttributes(m, b), st), want |-> SetAttributes(m, b)] :
            a \in AttrBlocks, b \in AttrBlocks, m \in {String(<<"a">>), Int64(1)},
            st \in {"line", "streamed"}}
    \cup {[in |-> Line("|", <<"1">>) \o Line("+", <<"t", "t", "l">>)
                  \o Line(":", <<"1", "0", "0">>) \o Line("+", <<"P", "O", "N", "G">>),
           want |-> SetAttributes(String(<<"P", "O", "N", "G">>),
                                  Attributes(<<String(<<"t", "t", "l">>)>>, <<Int64(100)>>))]}

C1_AttributeAttachment ==
    /\ \A c \in AttachmentCases :
          (input = c.in /\ Called) =>
             /\ rets[1].kind = "ret" /\ rets[1].err = "nil"
             /\ rets[1].msg.t = c.want.t
             /\ rets[1].msg.attrs = c.want.attrs
             /\ (c.want.t = "Array" /\ Len(c.want.v) > 0 /\ c.want.v[1].attrs # <<>>) =>
                   /\ Len(rets[1].msg.v) > 0
                   /\ rets[1].msg.v[1].attrs = c.want.v[1].attrs
    /\ \A i \in 1..Len(rets) :
          (rets[i].kind = "ret" /\ rets[i].err = "nil") => rets[i].msg.t # "Attributes"

\* C2: the counted encoding and the streamed encoding of one sequence or
\* key/value list decode to the same Message.
C2_FixedEqualsStreamed ==
    \A c \in Framings :
       (input = c.fixed /\ Called) =>
          LET s == ReadNext(c.streamed, 0)
          IN  /\ rets[1].kind = "ret" /\ rets[1].err = "nil"
              /\ s.kind = "ret" /\ s.err = "nil"
              /\ rets[1].msg = s.msg

\* C3: a blob string or blob error of payload P decodes to the text P.
BlobCases ==
    {[in |-> Blob("$", t), want |-> String(t)] : t \in Texts \cup {<<"h", "e", "l", "l", "o">>}}
    \cup {[in |-> Blob("!", t), want |-> Error(t)] : t \in Texts}

C3_FixedBlobRoundTrip ==
    \A c \in BlobCases : (input = c.in /\ Called) => Returned(rets[1], c.want)

\* C4: a streamed blob string decodes to the concatenation of its chunks,
\* the text of the fixed-length encoding of the same content, and ends at
\* the chunk of length zero.
ChunkCases ==
    ChunkLists \cup {<<(<<"H", "e", "l", "l", "o">>), (<<"W", "o", "r", "l", "d">>)>>}

C4_ChunksConcatenate ==
    \A cs \in ChunkCases :
       (input = ChunkedBlob(cs) /\ Called) =>
          LET f == ReadNext(Blob("$", Concat(cs)), 0)
          IN  /\ Returned(rets[1], String(Concat(cs)))
              /\ f.kind = "ret" /\ f.err = "nil" /\ f.msg = rets[1].msg
              /\ rets[1].pos = Len(input)

\* C5: the line of a decimal integer n decodes to Int64(n); a line that is
\* no 64-bit decimal integer yields an error and no value.
NumberCases == Ints \cup {12, 100, 0 - 100}

C5_NumberParses ==
    /\ \A n \in NumberCases :
          (input = Line(":", Dec(n)) /\ Called) => Returned(rets[1], Int64(n))
    /\ (input \in BadNumbers /\ Called) => Failed(rets[1])

\* C6: ReadNext on a proper prefix of a well-formed message returns an I/O
\* error and no Message.
ProperPrefixes == UNION {{SubSeq(e, 1, n) : n \in 0..(Len(e) - 1)} : e \in Truncatable}

C6_TruncatedNeverYields ==
    (input \in ProperPrefixes /\ Called) =>
       /\ Failed(rets[1])
       /\ rets[1].err \in {"EOF", "ErrUnexpectedEOF"}

\* C7: ReadNext on a byte that is no tag of the dispatch table panics, which
\* is no error return, returns no Message and consumes nothing after that
\* byte; the panic of a nested ReadNext is the outcome of the whole call.
C7_UnknownTagIsFatal ==
    /\ \A p \in 0..(Len(input) - 1) :
          input[p + 1] \notin DispatchTags => UnknownTypePanic(ReadNext(input, p), p + 1)
    /\ \A i \in 1..Len(rets) :
          (rets[i].kind = "panic" /\ rets[i].why = "received unknown message type: ") =>
             /\ i = Len(rets) /\ pos = rets[i].pos /\ status = "panicked"
             /\ input[pos] \notin DispatchTags
             /\ rets[i].arg = <<input[pos]>>
    /\ \A t \in {"*", "~", ">", "%"}, v \in {<<>>, <<String(<<"a">>), Int64(1)>>},
          x \in {"@", ";", "a", "0", "?", CR, LF}, rest \in {<<>>, Line(":", <<"1">>)} :
          (input = Line(t, <<"?">>) \o EncAll(v, "line") \o <<x>> \o rest /\ Called) =>
             UnknownTypePanic(rets[1], Len(Line(t, <<"?">>) \o EncAll(v, "line")) + 1)

\* C7 witness: an unknown tag met as an element of a streamed aggregate,
\* after two elements, ended the call in the panic.
C7_Witness ==
    /\ Called
    /\ input = Line("*", <<"?">>) \o EncAll(<<String(<<"a">>), Int64(1)>>, "line")
               \o <<"@">> \o Line(":", <<"1">>)
    /\ rets[1].kind = "panic"
    /\ rets[1].arg = <<"@">>
    /\ pos = 13

RECURSIVE AllPresent(_)
AllPresent(m) ==
    /\ m # NoMsg
    /\ \A j \in 1..Len(m.v) : AllPresent(m.v[j])
    /\ \A j \in 1..Len(m.k) : AllPresent(m.k[j])

\* C8: ReadNext returns no Message and no error exactly when the tag it
\* decoded is the stream-end tag; so a streamed aggregate holds every element
\* before the stream-end tag and no aggregate holds an absent element.
C8_StreamEndUnambiguous ==
    /\ \A i \in 1..Len(rets) :
          (rets[i].kind = "ret" /\ rets[i].err = "nil" /\ input[rets[i].start + 1] # "|") =>
             /\ (rets[i].msg = NoMsg) <=> (input[rets[i].start + 1] = ".")
             /\ rets[i].msg # NoMsg => AllPresent(rets[i].msg)
    /\ \A c \in TwoElements :
          (input = c.in /\ Called /\ rets[1].kind = "ret" /\ rets[1].err = "nil") =>
             Len(rets[1].msg.v) = 2

\* C9: with an attribute block pending, the stream-end tag makes ReadNext
\* return no Message and no error, without a panic.
C9_PendingAttributesAndEnd ==
    \A a \in AttrBlocks, st \in Styles :
       /\ (input = Enc(a, st) \o Line(".", <<>>) /\ Called) =>
             /\ Returned(rets[1], NoMsg)
             /\ rets[1].pos = Len(input)
       /\ (input = Line("*", <<"?">>) \o Enc(a, st) \o Line(".", <<>>) /\ Called) =>
             rets[1].kind = "ret"

\* C10: each successful ReadNext consumes the bytes of one message, so the
\* calls on a concatenation of encodings return its messages in order and
\* then end-of-stream.
PipelineCases ==
    {[in |-> Enc(m1, st) \o Enc(m2, st), msgs |-> <<m1, m2>>,
      ends |-> <<Len(Enc(m1, st)), Len(Enc(m1, st) \o Enc(m2, st))>>] :
        m1 \in Streamable, m2 \in Elems, st \in Styles}

C10_ExactConsumption ==
    \A c \in PipelineCases :
       input = c.in =>
          /\ \A i \in 1..Len(rets) :
                IF i <= 2
                THEN /\ rets[i].kind = "ret" /\ rets[i].err = "nil"
                     /\ rets[i].pos = c.ends[i]
                     /\ rets[i].msg # NoMsg => rets[i].msg.t = c.msgs[i].t
                ELSE i = 3 /\ Failed(rets[i]) /\ rets[i].err = "EOF"
          /\ status # "open" => Len(rets) = 3

====
